---- MODULE Spec2Model ----
(***************************************************************************)
(* A model of the GitHub CDN worker: src/cdn-worker.js (the fixed-owner    *)
(* variant, owner taken from env.GITHUB_OWNER) and src/unnamed/part_000    *)
(* (the owner-in-path variant).  One inbound request is handled at a time: *)
(* the handler runs to its single suspension point (the outbound fetch),   *)
(* the upstream answers or the transport fails, and the handler finishes.  *)
(***************************************************************************)
EXTENDS Integers, Sequences, FiniteSets, TLC

VARIABLES
    variant,    \* which of the two source files is deployed
    env,        \* the Worker's environment bindings
    req,        \* the inbound request being handled
    pc,         \* "idle", "awaitFetch" or "done"
    outbound,   \* the outbound requests issued for the inbound request
    fetched,    \* what the awaited fetch resolved with or threw
    resp,       \* the response returned to the caller
    twin        \* a second invocation, used for the two-run comparison

vars == <<variant, env, req, pc, outbound, fetched, resp, twin>>

---------------------------------------------------------------------------
(* Bounds of the model.                                                    *)

\* the longest inbound path, counted in '/'-separated segments
MaxSegs == 3

---------------------------------------------------------------------------
(* JavaScript values: undefined, null, strings and numbers.                *)

Undefined == [type |-> "undefined"]
Null == [type |-> "null"]
Str(s) == [type |-> "string", v |-> s]
Num(n) == [type |-> "number", num |-> n]

\* ToBoolean: undefined, null, "" and 0 are falsy
Truthy(x) ==
    CASE x.type = "undefined" -> FALSE
      [] x.type = "null" -> FALSE
      [] x.type = "string" -> x.v # ""
      [] x.type = "number" -> x.num # 0

\* a || b
Or(a, b) == IF Truthy(a) THEN a ELSE b

\* a === b
StrictEq(a, b) == a = b

Digit(d) ==
    CASE d = 0 -> "0" [] d = 1 -> "1" [] d = 2 -> "2" [] d = 3 -> "3"
      [] d = 4 -> "4" [] d = 5 -> "5" [] d = 6 -> "6" [] d = 7 -> "7"
      [] d = 8 -> "8" [] d = 9 -> "9"

RECURSIVE NumToStr(_)
NumToStr(n) == IF n < 10 THEN Digit(n) ELSE NumToStr(n \div 10) \o Digit(n % 10)

\* ToString, as a template literal `${x}` applies it
ToStr(x) ==
    CASE x.type = "undefined" -> "undefined"
      [] x.type = "null" -> "null"
      [] x.type = "string" -> x.v
      [] x.type = "number" -> NumToStr(x.num)

---------------------------------------------------------------------------
(* Strings the code takes apart are sequences of one-character strings.    *)

RECURSIVE Chars2Str(_)
Chars2Str(cs) == IF cs = <<>> THEN "" ELSE Head(cs) \o Chars2Str(Tail(cs))

\* pathname.replace(/^\/+/, '')
RECURSIVE StripLeadingSlashes(_)
StripLeadingSlashes(cs) ==
    IF cs # <<>> /\ Head(cs) = "/" THEN StripLeadingSlashes(Tail(cs)) ELSE cs

\* String.prototype.split('/'): one part more than there are separators
RECURSIVE Split(_)
Split(cs) ==
    IF cs = <<>> THEN << <<>> >>
    ELSE LET rest == Split(Tail(cs)) IN
         IF Head(cs) = "/" THEN << <<>> >> \o rest
         ELSE << <<Head(cs)>> \o Head(rest) >> \o Tail(rest)

\* Array.prototype.join('/')
RECURSIVE Join(_)
Join(parts) ==
    IF parts = <<>> THEN <<>>
    ELSE IF Len(parts) = 1 THEN Head(parts)
    ELSE Head(parts) \o <<"/">> \o Join(Tail(parts))

---------------------------------------------------------------------------
(* Headers objects: a function from the names present to their values.     *)

NoHeaders == [n \in {} |-> ""]

HeadersGet(h, n) == IF n \in DOMAIN h THEN Str(h[n]) ELSE Null

HeadersSet(h, n, v) == [x \in DOMAIN h \cup {n} |-> IF x = n THEN v ELSE h[x]]

---------------------------------------------------------------------------
(* const config                                                            *)

corsOrigin == "*"
githubDomain == "raw.githubusercontent.com"
defaultCacheTime == 86400

\* the host the Worker is served from (url.origin of every inbound request)
workerOrigin == "https://cdn.example.workers.dev"

---------------------------------------------------------------------------
(* Completion of a call: a returned value or a thrown error.               *)

Return(v) == [thrown |-> FALSE, value |-> v]
Throw(m) == [thrown |-> TRUE, message |-> m]

---------------------------------------------------------------------------
(* new Response(body, init)                                                *)

\* the statuses for which the constructor refuses a non-null body
NullBodyStatus == {101, 204, 205, 304}

NullBodyMessage == "Response with a null body status cannot have a body."

ResponseInit(status, statusText, headers) ==
    [status |-> status, statusText |-> statusText, headers |-> headers]

\* a string body gets Content-Type text/plain unless init names one; a
\* non-null body with a null body status throws a TypeError
NewResponse(body, init) ==
    IF body # Null /\ init.status \in NullBodyStatus
    THEN Throw(NullBodyMessage)
    ELSE Return([status |-> init.status,
                 statusText |-> init.statusText,
                 headers |-> IF body.type = "string" /\ "Content-Type" \notin DOMAIN init.headers
                             THEN HeadersSet(init.headers, "Content-Type", "text/plain;charset=UTF-8")
                             ELSE init.headers,
                 body |-> body])

\* response.ok
Ok(response) == response.status >= 200 /\ response.status <= 299

---------------------------------------------------------------------------
(* The parsed URL of a request: new URL(request.url).                      *)

\* url.searchParams.has(name) and url.searchParams.get(name)
SearchParamsHas(url, name) == name \in DOMAIN url.searchParams
SearchParamsGet(url, name) ==
    IF name \in DOMAIN url.searchParams THEN Str(url.searchParams[name]) ELSE Null

\* url.search: "" without a query, else "?token=<value>"
Search(url) ==
    IF "token" \in DOMAIN url.searchParams
    THEN "?token=" \o url.searchParams["token"]
    ELSE ""

---------------------------------------------------------------------------
(* Helper functions of the Worker.                                         *)

\* the environment variable wins over the request header
GetToken_EnvFirst(request, e) ==
    IF Truthy(e.GITHUB_TOKEN) THEN e.GITHUB_TOKEN
    ELSE LET headerToken == HeadersGet(request.headers, "X-GitHub-Token") IN
         IF Truthy(headerToken) THEN headerToken ELSE Null

\* the query parameter is read without the opt-in
GetToken_NoOptIn(request, e) ==
    LET headerToken == HeadersGet(request.headers, "X-GitHub-Token") IN
    IF Truthy(headerToken) THEN headerToken
    ELSE IF SearchParamsHas(request.url, "token")
         THEN SearchParamsGet(request.url, "token")
    ELSE IF Truthy(e.GITHUB_TOKEN) THEN e.GITHUB_TOKEN
    ELSE Null

\* an empty query token falls through to the environment variable
GetToken_QueryTruthy(request, e) ==
    LET headerToken == HeadersGet(request.headers, "X-GitHub-Token") IN
    IF Truthy(headerToken) THEN headerToken
    ELSE IF StrictEq(e.ALLOW_QUERY_PARAM_TOKEN, Str("true"))
            /\ Truthy(SearchParamsGet(request.url, "token"))
         THEN SearchParamsGet(request.url, "token")
    ELSE IF Truthy(e.GITHUB_TOKEN) THEN e.GITHUB_TOKEN
    ELSE Null

\* getToken(request, env): header, then query parameter (opt-in), then env
GetToken(request, e) ==
    LET headerToken == HeadersGet(request.headers, "X-GitHub-Token") IN
    IF Truthy(headerToken) THEN headerToken
    ELSE IF StrictEq(e.ALLOW_QUERY_PARAM_TOKEN, Str("true"))
            /\ SearchParamsHas(request.url, "token")
         THEN SearchParamsGet(request.url, "token")
    ELSE IF Truthy(e.GITHUB_TOKEN) THEN e.GITHUB_TOKEN
    ELSE Null

NotFoundBody == "File not found. Check repository, branch, and file path."
AccessDeniedBody == "Access denied. Your token may be invalid or lack permissions."

\* 401 keeps its own status
HandleGitHubError_Keep401(response) ==
    IF response.status = 404
    THEN NewResponse(Str(NotFoundBody), ResponseInit(404, "", NoHeaders))
    ELSE IF response.status = 403
    THEN NewResponse(Str(AccessDeniedBody), ResponseInit(403, "", NoHeaders))
    ELSE NewResponse(Str("GitHub API error: " \o NumToStr(response.status) \o " " \o response.statusText),
                     ResponseInit(response.status, "", NoHeaders))

\* handleGitHubError(response)
HandleGitHubError(response) ==
    IF response.status = 404
    THEN NewResponse(Str(NotFoundBody), ResponseInit(404, "", NoHeaders))
    ELSE IF response.status = 401 \/ response.status = 403
    THEN NewResponse(Str(AccessDeniedBody), ResponseInit(403, "", NoHeaders))
    ELSE NewResponse(Str("GitHub API error: " \o NumToStr(response.status) \o " " \o response.statusText),
                     ResponseInit(response.status, "", NoHeaders))

\* applyHeaders(headers, env): the headers after the seven set() calls
ApplyHeaders(headers, e) ==
    LET cacheTime == Or(e.CACHE_TIME, Num(defaultCacheTime))
        h1 == HeadersSet(headers, "Cache-Control", "public, max-age=" \o ToStr(cacheTime))
        h2 == HeadersSet(h1, "Access-Control-Allow-Origin", corsOrigin)
        h3 == HeadersSet(h2, "Access-Control-Allow-Methods", "GET, HEAD, OPTIONS")
        h4 == HeadersSet(h3, "Access-Control-Max-Age", "86400")
        h5 == HeadersSet(h4, "X-Content-Type-Options", "nosniff")
        h6 == HeadersSet(h5, "X-Frame-Options", "DENY")
    IN  HeadersSet(h6, "Referrer-Policy", "strict-origin-when-cross-origin")

\* the empty object {} that handleOptions passes as env
EmptyEnv ==
    [GITHUB_OWNER |-> Undefined, GITHUB_TOKEN |-> Undefined,
     ALLOW_QUERY_PARAM_TOKEN |-> Undefined, CACHE_TIME |-> Undefined]

DefaultAllowHeaders == "X-GitHub-Token, Content-Type"

\* handleOptions(request)
HandleOptions(request) ==
    LET headers == ApplyHeaders(NoHeaders, EmptyEnv)
        allow == Or(HeadersGet(request.headers, "Access-Control-Request-Headers"),
                    Str(DefaultAllowHeaders))
    IN  NewResponse(Null, ResponseInit(200, "", HeadersSet(headers, "Access-Control-Allow-Headers", ToStr(allow))))

\* generateLandingPage(url): the HTML names the usage format with url.origin;
\* the fixed-owner file is called with { origin }, the other with the URL
LandingPageBody(v, origin) ==
    IF v = "fixedOwner"
    THEN "<html>" \o origin \o "/<repo>/<branch>/<path-to-file></html>"
    ELSE "<html>" \o origin \o "/<owner>/<repo>/<branch>/<path-to-file></html>"

GenerateLandingPage(v, url) ==
    NewResponse(Str(LandingPageBody(v, url.origin)),
                ResponseInit(200, "",
                    HeadersSet(HeadersSet(NoHeaders, "Content-Type", "text/html;charset=UTF-8"),
                               "Cache-Control", "public, max-age=" \o NumToStr(defaultCacheTime))))

---------------------------------------------------------------------------
(* The fetch handler.  A run is the handler's position, the outbound       *)
(* requests it has issued and the response it has returned.                *)

Responded(r) == [pc |-> "done", outbound |-> <<>>, resp |-> r]
Awaiting(o) == [pc |-> "awaitFetch", outbound |-> <<o>>, resp |-> Null]

\* fetch(githubUrl, { headers }): no method is passed, so the request is a GET
FetchCall(githubUrl, headers) ==
    [url |-> githubUrl, method |-> "GET", headers |-> headers]

\* token ? { 'Authorization': `token ${token}` } : {}
AuthHeaders(token) ==
    IF Truthy(token)
    THEN HeadersSet(NoHeaders, "Authorization", "token " \o ToStr(token))
    ELSE NoHeaders

\* the catch block: a 500 carrying err.message
CatchResponse(err) ==
    NewResponse(Str("Proxy request failed: " \o err.message),
                ResponseInit(500, "", NoHeaders)).value

\* the fixed-owner file: `https://${githubDomain}/${owner}/${repo}/${branch}/${fileParts.join('/')}`
GithubUrlFixedOwner(owner, parts) ==
    "https://" \o githubDomain \o "/" \o ToStr(owner)
        \o "/" \o Chars2Str(parts[1]) \o "/" \o Chars2Str(parts[2])
        \o "/" \o Chars2Str(Join(SubSeq(parts, 3, Len(parts))))

\* the query string is appended to the upstream URL
GithubUrlOwnerInPath_WithSearch(url) ==
    "https://" \o githubDomain \o Chars2Str(url.pathname) \o Search(url)

\* the owner-in-path file: `https://${githubDomain}${url.pathname}`
GithubUrlOwnerInPath(url) ==
    "https://" \o githubDomain \o Chars2Str(url.pathname)

\* the try block of the fixed-owner file, up to the await of fetch
TryFixedOwner(request, e) ==
    LET token == GetToken(request, e)
        owner == e.GITHUB_OWNER
        parts == Split(StripLeadingSlashes(request.url.pathname))
    IN  IF ~Truthy(owner)
        THEN Responded(NewResponse(Str("GITHUB_OWNER environment variable not set."),
                                   ResponseInit(500, "", NoHeaders)).value)
        ELSE IF Len(parts) < 3
        THEN Responded(NewResponse(Str("Invalid path. Format: /repo/branch/path-to-file"),
                                   ResponseInit(400, "", NoHeaders)).value)
        ELSE Awaiting(FetchCall(GithubUrlFixedOwner(owner, parts), AuthHeaders(token)))

\* the try block of the owner-in-path file, up to the await of fetch
TryOwnerInPath(request, e) ==
    LET token == GetToken(request, e)
    IN  Awaiting(FetchCall(GithubUrlOwnerInPath(request.url), AuthHeaders(token)))

\* fetch(request, env, ctx) up to its first return or its await
FetchStart(v, request, e) ==
    IF request.method = "OPTIONS"
    THEN Responded(HandleOptions(request).value)
    ELSE IF request.url.pathname = <<"/">> \/ request.url.pathname = <<>>
    THEN Responded(GenerateLandingPage(v, request.url).value)
    ELSE IF v = "fixedOwner" THEN TryFixedOwner(request, e)
    ELSE TryOwnerInPath(request, e)

\* the rest of the try block once fetch has resolved with githubResponse
AfterFetch(githubResponse, e) ==
    IF ~Ok(githubResponse)
    THEN LET r == HandleGitHubError(githubResponse) IN
         IF r.thrown THEN CatchResponse(r) ELSE r.value
    ELSE LET r == NewResponse(githubResponse.body,
                     ResponseInit(githubResponse.status, githubResponse.statusText,
                                  githubResponse.headers)) IN
         IF r.thrown THEN CatchResponse(r)
         ELSE [r.value EXCEPT !.headers = ApplyHeaders(r.value.headers, e)]

---------------------------------------------------------------------------
(* The inputs: deployments, inbound requests, upstream results.            *)

Variants == {"fixedOwner", "ownerInPath"}

Envs ==
    [GITHUB_OWNER : {Undefined, Str("octo")},
     GITHUB_TOKEN : {Undefined, Str("envtok")},
     ALLOW_QUERY_PARAM_TOKEN : {Undefined, Str("true"), Str("false")},
     CACHE_TIME : {Undefined, Num(0), Str("3600")}]

Segments == {<<>>, <<"a">>}

\* "/" followed by the segments joined with "/"
PathOf(segs) == <<"/">> \o Join(segs)

Paths == {PathOf(segs) : segs \in UNION {[1..n -> Segments] : n \in 1..MaxSegs}}

QueryStrings == {NoHeaders} \cup {[n \in {"token"} |-> t] : t \in {"", "qtok"}}

RequestHeaders ==
    {[n \in names |-> IF n = "X-GitHub-Token" THEN t ELSE "Range"] :
        names \in SUBSET {"X-GitHub-Token", "Access-Control-Request-Headers"},
        t \in {"", "hdrtok"}}

Requests ==
    [method : {"GET", "HEAD", "OPTIONS"},
     url : [origin : {workerOrigin}, pathname : Paths, searchParams : QueryStrings],
     headers : RequestHeaders]

UpstreamStatuses == {200, 204, 304, 401, 403, 404, 503}

StatusText(status) ==
    CASE status = 200 -> "OK"
      [] status = 204 -> "No Content"
      [] status = 304 -> "Not Modified"
      [] status = 401 -> "Unauthorized"
      [] status = 403 -> "Forbidden"
      [] status = 404 -> "Not Found"
      [] status = 503 -> "Service Unavailable"

\* the body of an upstream response: a stream, or null for a null body status
Stream(bytes) == [type |-> "stream", bytes |-> bytes]

\* two upstream payloads, differing in their headers and in their bytes
UpstreamPayloads ==
    {[headers |-> [n \in {"Content-Type", "ETag"} |->
                      IF n = "ETag" THEN "W/abc" ELSE "image/png"],
      bytes |-> "bytes-1"],
     [headers |-> [n \in {"Content-Type", "Cache-Control"} |->
                      IF n = "Cache-Control" THEN "max-age=300" ELSE "text/plain; charset=utf-8"],
      bytes |-> "bytes-2"]}

UpstreamResponses ==
    {[status |-> st, statusText |-> StatusText(st), headers |-> p.headers,
      body |-> IF st \in NullBodyStatus THEN Null ELSE Stream(p.bytes)] :
        st \in UpstreamStatuses, p \in UpstreamPayloads}

TransportErrors == {"Network connection lost."}

---------------------------------------------------------------------------
(* The state machine.                                                      *)

Init ==
    /\ variant \in Variants
    /\ env \in Envs
    \* the owner-in-path file never reads GITHUB_OWNER
    /\ variant = "ownerInPath" => env.GITHUB_OWNER = Undefined
    /\ req = Null
    /\ pc = "idle"
    /\ outbound = <<>>
    /\ fetched = Null
    /\ resp = Null
    /\ twin = Null

\* an inbound request arrives and the handler runs to its return or its await
Receive(request) ==
    /\ pc = "idle"
    /\ LET run == FetchStart(variant, request, env) IN
        /\ req' = request
        /\ pc' = run.pc
        /\ outbound' = run.outbound
        /\ resp' = run.resp
    /\ UNCHANGED <<variant, env, fetched, twin>>

\* the awaited fetch resolves
UpstreamResponds(response) ==
    /\ pc = "awaitFetch"
    /\ fetched' = Return(response)
    /\ resp' = AfterFetch(response, env)
    /\ pc' = "done"
    /\ UNCHANGED <<variant, env, req, outbound, twin>>

\* the awaited fetch rejects
UpstreamFails(message) ==
    /\ pc = "awaitFetch"
    /\ fetched' = Throw(message)
    /\ resp' = CatchResponse(Throw(message))
    /\ pc' = "done"
    /\ UNCHANGED <<variant, env, req, outbound, twin>>

\* the response has gone to the caller; nothing of the request is kept
Deliver ==
    /\ pc = "done"
    /\ req' = Null
    /\ pc' = "idle"
    /\ outbound' = <<>>
    /\ fetched' = Null
    /\ resp' = Null
    /\ UNCHANGED <<variant, env, twin>>

Next ==
    \/ \E request \in Requests : Receive(request)
    \/ \E response \in UpstreamResponses : UpstreamResponds(response)
    \/ \E message \in TransportErrors : UpstreamFails(message)
    \/ Deliver

Spec == Init /\ [][Next]_vars

---------------------------------------------------------------------------
(* Two invocations side by side: the same deployment and the same request  *)
(* apart from the token material (X-GitHub-Token, ?token=, GITHUB_TOKEN,   *)
(* ALLOW_QUERY_PARAM_TOKEN), given the same upstream result.  The second   *)
(* invocation lives in twin.                                               *)

\* the token material of a request: its X-GitHub-Token header and its query
TokenHeaders == {NoHeaders, [n \in {"X-GitHub-Token"} |-> "hdrtok"]}
TokenQueries == {NoHeaders, [n \in {"token"} |-> "qtok"]}

\* r with the token header of h and the query q
WithTokens(r, h, q) ==
    [r EXCEPT
        !.url.searchParams = q,
        !.headers =
            [n \in (DOMAIN r.headers \ {"X-GitHub-Token"}) \cup DOMAIN h |->
                IF n \in DOMAIN h THEN h[n] ELSE r.headers[n]]]

\* the inputs of the comparison
PairEnvs ==
    [GITHUB_OWNER : {Undefined, Str("octo")},
     GITHUB_TOKEN : {Undefined, Str("envtok")},
     ALLOW_QUERY_PARAM_TOKEN : {Undefined, Str("true")},
     CACHE_TIME : {Undefined, Str("3600")}]

PairRequests ==
    [method : {"GET", "HEAD", "OPTIONS"},
     url : [origin : {workerOrigin}, pathname : Paths, searchParams : TokenQueries],
     headers : TokenHeaders]

PairResponses ==
    {u \in UpstreamResponses : u.status \in {200, 404, 503} /\ "ETag" \in DOMAIN u.headers}

InitPair ==
    /\ variant \in Variants
    /\ env \in PairEnvs
    /\ variant = "ownerInPath" => env.GITHUB_OWNER = Undefined
    /\ req = Null
    /\ pc = "idle"
    /\ outbound = <<>>
    /\ fetched = Null
    /\ resp = Null
    /\ \E e \in PairEnvs :
        /\ e.GITHUB_OWNER = env.GITHUB_OWNER
        /\ e.CACHE_TIME = env.CACHE_TIME
        /\ twin = [env |-> e, req |-> Null, pc |-> "idle", outbound |-> <<>>, resp |-> Null]

\* the two requests arrive, each handler runs to its return or its await
PairReceive(request, h, q) ==
    /\ pc = "idle"
    /\ twin.pc = "idle"
    /\ LET run == FetchStart(variant, request, env)
           request2 == WithTokens(request, h, q)
           run2 == FetchStart(variant, request2, twin.env)
       IN
        /\ req' = request
        /\ pc' = run.pc
        /\ outbound' = run.outbound
        /\ resp' = run.resp
        /\ twin' = [twin EXCEPT !.req = request2, !.pc = run2.pc,
                                !.outbound = run2.outbound, !.resp = run2.resp]
    /\ UNCHANGED <<variant, env, fetched>>

\* both awaited fetches resolve with the same response
PairUpstreamResponds(response) ==
    /\ pc = "awaitFetch"
    /\ twin.pc = "awaitFetch"
    /\ fetched' = Return(response)
    /\ resp' = AfterFetch(response, env)
    /\ pc' = "done"
    /\ twin' = [twin EXCEPT !.pc = "done", !.resp = AfterFetch(response, twin.env)]
    /\ UNCHANGED <<variant, env, req, outbound>>

\* both awaited fetches reject with the same error
PairUpstreamFails(message) ==
    /\ pc = "awaitFetch"
    /\ twin.pc = "awaitFetch"
    /\ fetched' = Throw(message)
    /\ resp' = CatchResponse(Throw(message))
    /\ pc' = "done"
    /\ twin' = [twin EXCEPT !.pc = "done", !.resp = CatchResponse(Throw(message))]
    /\ UNCHANGED <<variant, env, req, outbound>>

\* both responses have gone to their callers
PairDeliver ==
    /\ pc = "done"
    /\ twin.pc = "done"
    /\ req' = Null
    /\ pc' = "idle"
    /\ outbound' = <<>>
    /\ fetched' = Null
    /\ resp' = Null
    /\ twin' = [twin EXCEPT !.req = Null, !.pc = "idle", !.outbound = <<>>, !.resp = Null]
    /\ UNCHANGED <<variant, env>>

NextPair ==
    \/ \E request \in PairRequests, h \in TokenHeaders, q \in TokenQueries :
            PairReceive(request, h, q)
    \/ \E response \in PairResponses : PairUpstreamResponds(response)
    \/ \E message \in TransportErrors : PairUpstreamFails(message)
    \/ PairDeliver

SpecPair == InitPair /\ [][NextPair]_vars

---------------------------------------------------------------------------
(* Vocabulary of the properties.                                           *)

\* a request is being handled or has just been answered
Handling == pc # "idle"

\* the request takes the proxy flow: not a preflight, not the root path
ContentPath ==
    /\ Handling
    /\ req.method # "OPTIONS"
    /\ req.url.pathname # <<"/">>
    /\ req.url.pathname # <<>>

HeaderToken == HeadersGet(req.headers, "X-GitHub-Token")
QueryToken == SearchParamsGet(req.url, "token")

\* the Authorization header of the outbound request, null when it has none
SentAuthorization == HeadersGet(outbound[1].headers, "Authorization")

\* the non-empty segments of the path after its leading slashes
NonEmptySegments(pathname) ==
    SelectSeq(Split(StripLeadingSlashes(pathname)), LAMBDA seg : seg # <<>>)

\* the fetch resolved with a response of one of these statuses
FetchedStatusIn(statuses) ==
    /\ pc = "done"
    /\ fetched # Null
    /\ ~fetched.thrown
    /\ fetched.value.status \in statuses

---------------------------------------------------------------------------
(* C1: a content-path request with a non-empty X-GitHub-Token header T is  *)
(* sent upstream with Authorization exactly "token T", whatever the query  *)
(* parameter, ALLOW_QUERY_PARAM_TOKEN and GITHUB_TOKEN are.                *)
C1_HeaderTokenWins ==
    (ContentPath /\ HeaderToken # Null /\ HeaderToken.v # "" /\ outbound # <<>>)
        => SentAuthorization = Str("token " \o req.headers["X-GitHub-Token"])

C1_Witness ==
    /\ ContentPath
    /\ pc = "awaitFetch"
    /\ HeaderToken = Str("hdrtok")
    /\ QueryToken = Str("qtok")
    /\ env.ALLOW_QUERY_PARAM_TOKEN = Str("true")
    /\ env.GITHUB_TOKEN = Str("envtok")
    /\ SentAuthorization = Str("token hdrtok")

\* C2 as claimed: without a header token and without the opt-in, a request
\* with ?token=T is sent upstream without any Authorization header.
C2_Original ==
    (ContentPath /\ HeaderToken = Null /\ env.ALLOW_QUERY_PARAM_TOKEN # Str("true")
        /\ QueryToken # Null /\ outbound # <<>>)
        => SentAuthorization = Null

(* C2, amended: without a header token and without the opt-in, a request   *)
(* with ?token=T is sent upstream with Authorization "token <GITHUB_TOKEN>"*)
(* when a non-empty GITHUB_TOKEN is configured and with no Authorization   *)
(* header otherwise; T is never sent.                                      *)
C2_QueryTokenIgnored ==
    (ContentPath /\ HeaderToken = Null /\ env.ALLOW_QUERY_PARAM_TOKEN # Str("true")
        /\ QueryToken # Null /\ outbound # <<>>)
        => /\ env.GITHUB_TOKEN \in {Undefined, Str("")} => SentAuthorization = Null
           /\ env.GITHUB_TOKEN \notin {Undefined, Str("")}
                => SentAuthorization = Str("token " \o env.GITHUB_TOKEN.v)

C2_Witness ==
    /\ ContentPath
    /\ pc = "awaitFetch"
    /\ HeaderToken = Null
    /\ env.ALLOW_QUERY_PARAM_TOKEN = Str("false")
    /\ QueryToken = Str("qtok")
    /\ env.GITHUB_TOKEN = Str("envtok")
    /\ SentAuthorization = Str("token envtok")

\* C3 as claimed: without a header token and with the opt-in, a request with
\* ?token=T is sent upstream with Authorization "token T", for every T, the
\* empty string included.
C3_Original ==
    (ContentPath /\ HeaderToken = Null /\ env.ALLOW_QUERY_PARAM_TOKEN = Str("true")
        /\ QueryToken # Null /\ outbound # <<>>)
        => SentAuthorization = Str("token " \o QueryToken.v)

(* C3, amended: without a header token and with the opt-in, a request with *)
(* ?token=T is sent upstream with Authorization "token T" when T is not    *)
(* empty and with no Authorization header when T is empty; in neither case *)
(* is the configured GITHUB_TOKEN sent.                                    *)
C3_QueryTokenOptIn ==
    (ContentPath /\ HeaderToken = Null /\ env.ALLOW_QUERY_PARAM_TOKEN = Str("true")
        /\ QueryToken # Null /\ outbound # <<>>)
        => /\ QueryToken.v # "" => SentAuthorization = Str("token " \o QueryToken.v)
           /\ QueryToken.v = "" => SentAuthorization = Null

C3_Witness ==
    /\ ContentPath
    /\ pc = "awaitFetch"
    /\ HeaderToken = Null
    /\ env.ALLOW_QUERY_PARAM_TOKEN = Str("true")
    /\ QueryToken = Str("")
    /\ env.GITHUB_TOKEN = Str("envtok")
    /\ SentAuthorization = Null

\* C4 as claimed, for a deployment whose GITHUB_OWNER is set: in the
\* fixed-owner variant a content-path request whose path has fewer than 3
\* non-empty segments is answered 400 with the expected format in the body,
\* and no outbound request is made.
C4_Original ==
    (variant = "fixedOwner" /\ ContentPath /\ Truthy(env.GITHUB_OWNER)
        /\ Len(NonEmptySegments(req.url.pathname)) < 3)
        => /\ pc = "done"
           /\ outbound = <<>>
           /\ resp.status = 400
           /\ resp.body = Str("Invalid path. Format: /repo/branch/path-to-file")

(* C5: an upstream 404 is answered 404 with the fixed not-found body, and  *)
(* an upstream 401 or 403 is answered 403 with the fixed access-denied     *)
(* body; the response is one fixed value, whatever the upstream body and   *)
(* headers and whatever token was sent.                                    *)
C5_ErrorMapping ==
    /\ FetchedStatusIn({404}) =>
            resp = [status |-> 404, statusText |-> "",
                    headers |-> [n \in {"Content-Type"} |-> "text/plain;charset=UTF-8"],
                    body |-> Str("File not found. Check repository, branch, and file path.")]
    /\ FetchedStatusIn({401, 403}) =>
            resp = [status |-> 403, statusText |-> "",
                    headers |-> [n \in {"Content-Type"} |-> "text/plain;charset=UTF-8"],
                    body |-> Str("Access denied. Your token may be invalid or lack permissions.")]

C5_Witness ==
    /\ FetchedStatusIn({401})
    /\ fetched.value.body = Stream("bytes-2")
    /\ SentAuthorization = Str("token hdrtok")
    /\ resp.status = 403

\* the header set of the rewrite, apart from Cache-Control
RewriteApplied(headers) ==
    /\ HeadersGet(headers, "Access-Control-Allow-Origin") = Str("*")
    /\ HeadersGet(headers, "Access-Control-Allow-Methods") = Str("GET, HEAD, OPTIONS")
    /\ HeadersGet(headers, "Access-Control-Max-Age") = Str("86400")
    /\ HeadersGet(headers, "X-Content-Type-Options") = Str("nosniff")
    /\ HeadersGet(headers, "X-Frame-Options") = Str("DENY")
    /\ HeadersGet(headers, "Referrer-Policy") = Str("strict-origin-when-cross-origin")

\* "public, max-age=<N>" with N the configured cache seconds, default 86400
ConfiguredCacheControl ==
    IF env.CACHE_TIME = Undefined
    THEN Str("public, max-age=86400")
    ELSE Str("public, max-age=" \o ToStr(env.CACHE_TIME))

\* C6 as claimed: a response to an upstream 2xx carries Cache-Control
\* "public, max-age=86400" when no CACHE_TIME is configured and
\* "public, max-age=<CACHE_TIME>" when one is, whatever upstream sent.
C6_Original ==
    FetchedStatusIn(200..299)
        => HeadersGet(resp.headers, "Cache-Control") = ConfiguredCacheControl

\* C7 as claimed: an OPTIONS request on any path is answered 200 with an
\* empty body, the rewritten header set for the deployment's configuration
\* and Access-Control-Allow-Headers echoing Access-Control-Request-Headers
\* (the default list when none is supplied); no outbound request is made.
C7_Original ==
    (Handling /\ req.method = "OPTIONS")
        => /\ pc = "done"
           /\ outbound = <<>>
           /\ resp.status = 200
           /\ resp.body = Null
           /\ RewriteApplied(resp.headers)
           /\ HeadersGet(resp.headers, "Access-Control-Allow-Headers") =
                (IF Truthy(HeadersGet(req.headers, "Access-Control-Request-Headers"))
                 THEN HeadersGet(req.headers, "Access-Control-Request-Headers")
                 ELSE Str("X-GitHub-Token, Content-Type"))
           /\ HeadersGet(resp.headers, "Cache-Control") = ConfiguredCacheControl

\* C8 as claimed: an upstream 2xx or 3xx (304 included) is passed through:
\* the response keeps the upstream status and body and has the header
\* rewrite applied; it is never an error page or a 500.
C8_Original ==
    FetchedStatusIn(200..399)
        => /\ resp.status = fetched.value.status
           /\ resp.body = fetched.value.body
           /\ RewriteApplied(resp.headers)

\* the request passes the configuration and path validation of its variant
PassesValidation ==
    /\ ContentPath
    /\ variant = "fixedOwner" =>
            /\ Truthy(env.GITHUB_OWNER)
            /\ Len(Split(StripLeadingSlashes(req.url.pathname))) >= 3

\* C9 as claimed: a content-path request that passes validation causes
\* exactly one outbound request, with the method of the inbound request,
\* and it is never retried.
C9_Original ==
    PassesValidation
        => /\ Len(outbound) = 1
           /\ outbound[1].method = req.method

\* h without its Authorization entry
WithoutAuthorization(h) == [n \in DOMAIN h \ {"Authorization"} |-> h[n]]

(* C10: two requests that differ only in their token material and get the  *)
(* same upstream result ask upstream for the same URL and return the same  *)
(* response (status, headers, body); their outbound requests differ in the *)
(* Authorization header at most, and the query string is not in the URL.   *)
C10_TokenNonInterference ==
    /\ pc = twin.pc
    /\ resp = twin.resp
    /\ Len(outbound) = Len(twin.outbound)
    /\ \A i \in 1..Len(outbound) :
        /\ outbound[i].url = twin.outbound[i].url
        /\ outbound[i].method = twin.outbound[i].method
        /\ WithoutAuthorization(outbound[i].headers) = WithoutAuthorization(twin.outbound[i].headers)

C10_Witness ==
    /\ FetchedStatusIn({200})
    /\ req.url.searchParams # twin.req.url.searchParams
    /\ req.headers # twin.req.headers
    /\ env.GITHUB_TOKEN # twin.env.GITHUB_TOKEN
    /\ env.ALLOW_QUERY_PARAM_TOKEN # twin.env.ALLOW_QUERY_PARAM_TOKEN
    /\ outbound[1].headers # twin.outbound[1].headers
    /\ resp = twin.resp

====
